---- MODULE Spec2Model ----
(***************************************************************************)
(* Model of streamlit_app.py: a Streamlit script that is re-executed from  *)
(* top to bottom on every user interaction of a browser session.  Each     *)
(* action below is one interaction followed by one complete run of the     *)
(* script (RunScript).  The dataset files are shared by all sessions; the  *)
(* collection st.session_state.gdf is private to a session.                *)
(***************************************************************************)
EXTENDS Integers, Sequences, FiniteSets, TLC

(* ------------------------------ bounds -------------------------------- *)
\* number of clicks on "Save AOI" (also caps the clock)
MaxSaves == 2
\* length of the widget's drawing buffer (all_drawings)
MaxDrawings == 2
\* number of failed load_gdf calls a session retries
MaxLoads == 2

\* browser sessions running the script against the same files
Sessions == {"A"}
SharedSessions == {"A", "B"}

(* --------------------------- configuration ---------------------------- *)
GPKG_PATH == "aois.gpkg"
GEOJSON_PATH == "aois.geojson"
PARQUET_PATH == "aois.parquet"
Paths == {GPKG_PATH, GEOJSON_PATH, PARQUET_PATH}

EPSG4326 == "EPSG:4326"
EPSG3857 == "EPSG:3857"
Columns == <<"name", "timestamp", "geometry">>

\* markers for "no value"
Absent == [absent |-> TRUE]      \* os.path.exists(path) is False
Torn == [torn |-> TRUE]          \* a file left partly written by a write that raised
NoGdf == [nogdf |-> TRUE]        \* "gdf" not in st.session_state
NoUi == [noui |-> TRUE]          \* the session has not run the script yet
NoTyped == [notyped |-> TRUE]    \* the user has not edited the name input
NoWidget == [nowidget |-> TRUE]  \* a widget the run did not render
Raised == [raised |-> TRUE]      \* the call raised an exception

(* ----------------------------- geometry ------------------------------- *)
\* coordinate rings the drawing tool or a dataset file can hold
Rings == {"none", "bowtie", "square"}

\* a GeoJSON feature as reported by the map widget
Feature(ring) ==
  [type |-> "Feature", geometry |-> [type |-> "Polygon", coordinates |-> ring]]
Drawings == {Feature(r) : r \in Rings}

\* shapely.geometry.shape: GeoJSON geometry dict -> geometry object
shape(gj) == [geom_type |-> gj.type, coords |-> gj.coordinates]

\* geom.is_empty: no coordinates
is_empty(geom) == geom.coords = "none"

\* geom.is_valid: an empty geometry is valid, a self-intersecting ring is not
is_valid(geom) == geom.coords # "bowtie"

\* variant: the emptiness test is missing
ClassifyNoEmptyCheck(geom) ==
  IF ~is_valid(geom) THEN "SelfInvalid" ELSE "Valid"

\* variant: the validity test is missing
ClassifyNoValidityCheck(geom) ==
  IF is_empty(geom) THEN "Empty" ELSE "Valid"

\* the if / elif / else of the "rudimentary validity checks"
Classify(geom) ==
  IF is_empty(geom) THEN "Empty"
  ELSE IF ~is_valid(geom) THEN "SelfInvalid"
  ELSE "Valid"

(* ------------------------------ records ------------------------------- *)
\* variant: the default name counts from the size of the collection
DefaultNameOffByOne(n) == <<"AOI", n - 1>>

\* f"AOI {n}"
DefaultName(n) == <<"AOI", n>>

\* texts the user may type into the name input
TypedNames == {<<"Berlin Park", 0>>}

Record(name, ts, geom) == [name |-> name, timestamp |-> ts, geometry |-> geom]

Geom(ring) == shape(Feature(ring).geometry)

\* gpd.GeoDataFrame(columns=[...], geometry="geometry", crs="EPSG:4326")
EmptyGdf == [columns |-> Columns, crs |-> EPSG4326, rows |-> <<>>]

(* --------------------------- file formats ----------------------------- *)
FormatOf(path) ==
  CASE path = GPKG_PATH -> "GPKG"
    [] path = GEOJSON_PATH -> "GeoJSON"
    [] path = PARQUET_PATH -> "Parquet"

\* gdf.to_file(path, driver=...) / gdf.to_parquet(path) / gdf.to_json():
\* the bytes of the whole frame in one format
Serialize(gdf, fmt) ==
  [format |-> fmt, crs |-> gdf.crs, columns |-> gdf.columns, features |-> gdf.rows]

\* gpd.read_file(path) / gpd.read_parquet(path) on the bytes of a file
Deserialize(bytes) ==
  IF bytes = Torn THEN Raised
  ELSE [columns |-> bytes.columns, crs |-> bytes.crs, rows |-> bytes.features]


\* variant: aois.geojson is tried before aois.gpkg
load_gdfGeoJsonFirst(fs) ==
  IF fs[GEOJSON_PATH] # Absent
    THEN [src |-> GEOJSON_PATH, gdf |-> Deserialize(fs[GEOJSON_PATH])]
  ELSE IF fs[GPKG_PATH] # Absent
    THEN [src |-> GPKG_PATH, gdf |-> Deserialize(fs[GPKG_PATH])]
  ELSE IF fs[PARQUET_PATH] # Absent
    THEN [src |-> PARQUET_PATH, gdf |-> Deserialize(fs[PARQUET_PATH])]
  ELSE [src |-> "none", gdf |-> EmptyGdf]

\* load_gdf(): the path it reads (src) and what the read returns
load_gdf(fs) ==
  IF fs[GPKG_PATH] # Absent
    THEN [src |-> GPKG_PATH, gdf |-> Deserialize(fs[GPKG_PATH])]
  ELSE IF fs[GEOJSON_PATH] # Absent
    THEN [src |-> GEOJSON_PATH, gdf |-> Deserialize(fs[GEOJSON_PATH])]
  ELSE IF fs[PARQUET_PATH] # Absent
    THEN [src |-> PARQUET_PATH, gdf |-> Deserialize(fs[PARQUET_PATH])]
  ELSE [src |-> "none", gdf |-> EmptyGdf]

(* --------------------------- save handler ----------------------------- *)
\* variant: the new record overwrites the last row
appendReplaceLast(gdf, new_record) ==
  [gdf EXCEPT !.rows =
     IF @ = <<>> THEN <<new_record>> ELSE [@ EXCEPT ![Len(@)] = new_record]]

\* gdf.append(new_record, ignore_index=True): a new frame, one more row
append(gdf, new_record) == [gdf EXCEPT !.rows = Append(@, new_record)]

\* gdf.set_crs(epsg=4326, inplace=True): raises when the frame already has
\* another CRS
set_crs(gdf) == IF gdf.crs = EPSG4326 THEN gdf ELSE Raised

\* the three writes, in program order
WriteOrder == <<GPKG_PATH, GEOJSON_PATH, PARQUET_PATH>>

WriteIndex(path) == CHOOSE k \in 1..3 : WriteOrder[k] = path

\* variant: only the new record is written, not the whole collection
PersistNewRecordOnly(fs, gdf, failAt, torn) ==
  [p \in Paths |->
     LET i == WriteIndex(p)
         new == [gdf EXCEPT !.rows = <<gdf.rows[Len(gdf.rows)]>>]
     IN IF failAt = 0 \/ i < failAt THEN Serialize(new, FormatOf(p))
        ELSE IF i = failAt /\ torn THEN Torn
        ELSE fs[p]]

\* variant: aois.parquet is written first
PersistParquetFirst(fs, gdf, failAt, torn) ==
  [p \in Paths |->
     LET i == IF p = PARQUET_PATH THEN 1 ELSE WriteIndex(p) + 1
     IN IF failAt = 0 \/ i < failAt THEN Serialize(gdf, FormatOf(p))
        ELSE IF i = failAt /\ torn THEN Torn
        ELSE fs[p]]

\* The files after the three writes.  failAt = 0: every write returns;
\* failAt = k: the k-th write raises, leaving its file untouched or (torn)
\* partly written, and the later writes are not reached.
Persist(fs, gdf, failAt, torn) ==
  [p \in Paths |->
     LET i == WriteIndex(p)
     IN IF failAt = 0 \/ i < failAt THEN Serialize(gdf, FormatOf(p))
        ELSE IF i = failAt /\ torn THEN Torn
        ELSE fs[p]]

(* ------------------------- collection viewer -------------------------- *)
\* gdf.drop(columns="geometry")
DropGeometry(rows) ==
  [i \in 1..Len(rows) |-> [name |-> rows[i].name, timestamp |-> rows[i].timestamp]]

\* "Display and download saved AOIs": the table, the GeoJSON payload made
\* from the frame, the GeoPackage and Parquet payloads read from the files;
\* open() of a missing file raises and ends the run.
Viewer(gdf, fs) ==
  IF gdf.rows = <<>>
    THEN [table |-> NoWidget, geojson |-> NoWidget, gpkg |-> NoWidget,
          parquet |-> NoWidget, exception |-> "none"]
    ELSE LET noGpkg == fs[GPKG_PATH] = Absent
             noPq == fs[PARQUET_PATH] = Absent
         IN [table |-> [rows |-> DropGeometry(gdf.rows)],
             geojson |-> Serialize(gdf, "GeoJSON"),
             gpkg |-> IF noGpkg THEN NoWidget ELSE fs[GPKG_PATH],
             parquet |-> IF noGpkg \/ noPq THEN NoWidget ELSE fs[PARQUET_PATH],
             exception |-> IF noGpkg \/ noPq THEN "FileNotFoundError" ELSE "none"]

(* ------------------------------- state -------------------------------- *)
VARIABLES
  files,          \* path -> Absent, Torn or the bytes of a dataset
  session_state,  \* session -> NoGdf or st.session_state.gdf
  all_drawings,   \* session -> the map widget's drawing buffer
  typed,          \* session -> NoTyped or the user's edit of the name input
  ui,             \* session -> NoUi or what the last run rendered
  clock,          \* datetime.datetime.utcnow()
  loads           \* session -> the paths load_gdf read, one per call

vars == <<files, session_state, all_drawings, typed, ui, clock, loads>>

\* what a run that raised in load_gdf leaves on the page
LoadFailedUi ==
  [map |-> FALSE, message |-> "none", text_input |-> NoWidget, button |-> FALSE,
   table |-> NoWidget, geojson |-> NoWidget, gpkg |-> NoWidget,
   parquet |-> NoWidget, exception |-> "load_gdf",
   saved |-> FALSE, failAt |-> 0, torn |-> FALSE]


\* what a run that raised inside the save handler leaves below the handler
NoViewer(exception) ==
  [table |-> NoWidget, geojson |-> NoWidget, gpkg |-> NoWidget,
   parquet |-> NoWidget, exception |-> exception]

\* variant: the collection is loaded in every run
AlwaysLoad(ss, s) == TRUE

\* if "gdf" not in st.session_state
NotInSessionState(ss, s) == ss[s] = NoGdf

(* ------------------------- one run of the script ---------------------- *)
\* One execution of the script, top to bottom, for session s.
\*   drawings  output["all_drawings"] as reported by the map widget
\*   typedw    the user's edit of the name input, or NoTyped
\*   clicked   st.button("Save AOI") returns True in this run
\*   failAt    which of the three writes raises (0: none), torn: how
RunScript(s, drawings, typedw, clicked, failAt, torn) ==
  LET needLoad == NotInSessionState(session_state, s)
      ld == load_gdf(files)
  IN
  /\ loads' = IF needLoad THEN [loads EXCEPT ![s] = Append(@, ld.src)] ELSE loads
  /\ IF needLoad /\ ld.gdf = Raised
       THEN /\ ui' = [ui EXCEPT ![s] = LoadFailedUi]
            /\ all_drawings' = [all_drawings EXCEPT ![s] = <<>>]
            /\ typed' = [typed EXCEPT ![s] = NoTyped]
            /\ UNCHANGED <<files, session_state, clock>>
       ELSE
         LET g0 == IF needLoad THEN ld.gdf ELSE session_state[s]
             hasDraw == drawings # <<>>
             last_draw == drawings[Len(drawings)]
             geom == shape(last_draw.geometry)
             class == IF hasDraw THEN Classify(geom) ELSE "NoDrawing"
             default_name == DefaultName(Len(g0.rows) + 1)
             edited == typedw # NoTyped /\ typedw.for = default_name
             name == IF edited THEN typedw.text ELSE default_name
             save == class = "Valid" /\ clicked
             new_record == Record(name, clock, geom)
             withCrs == set_crs(append(g0, new_record))
             stored == save /\ withCrs # Raised
             g1 == IF stored THEN withCrs ELSE g0
             files1 == IF stored THEN Persist(files, g1, failAt, torn) ELSE files
             exc == IF save /\ ~stored THEN "set_crs"
                    ELSE IF stored /\ failAt # 0 THEN "write"
                    ELSE "none"
             view == IF exc = "none" THEN Viewer(g1, files1) ELSE NoViewer(exc)
             message ==
               CASE class = "NoDrawing" -> "info"
                 [] class = "Empty" -> "error_empty"
                 [] class = "SelfInvalid" -> "error_invalid"
                 [] class = "Valid" -> IF stored /\ failAt = 0 THEN "success" ELSE "none"
         IN
         /\ session_state' = [session_state EXCEPT ![s] = g1]
         /\ files' = files1
         /\ clock' = IF save THEN clock + 1 ELSE clock
         /\ all_drawings' = [all_drawings EXCEPT ![s] = drawings]
         /\ typed' = [typed EXCEPT ![s] =
                        IF class = "Valid" /\ edited THEN typedw ELSE NoTyped]
         /\ ui' = [ui EXCEPT ![s] =
              [map |-> TRUE,
               message |-> message,
               text_input |-> IF class = "Valid"
                                THEN [value |-> name, default |-> default_name]
                                ELSE NoWidget,
               button |-> class = "Valid",
               table |-> view.table,
               geojson |-> view.geojson,
               gpkg |-> view.gpkg,
               parquet |-> view.parquet,
               exception |-> view.exception,
               saved |-> stored,
               failAt |-> IF stored THEN failAt ELSE 0,
               torn |-> stored /\ torn]]

(* ------------------------------ actions ------------------------------- *)
\* a browser opens the app: the first run of a session
Start(s) ==
  /\ ui[s] = NoUi
  /\ RunScript(s, <<>>, NoTyped, FALSE, 0, FALSE)

\* an interaction that changes no input (the map is panned, the page
\* reloads after an exception)
Rerun(s) ==
  /\ ui[s] # NoUi
  /\ session_state[s] = NoGdf => Len(loads[s]) < MaxLoads
  /\ RunScript(s, all_drawings[s], typed[s], FALSE, 0, FALSE)

\* the user finishes a shape with the polygon tool
Draw(s, d) ==
  /\ ui[s] # NoUi
  /\ ui[s].map
  /\ Len(all_drawings[s]) < MaxDrawings
  /\ RunScript(s, Append(all_drawings[s], d), typed[s], FALSE, 0, FALSE)

\* the user removes the shapes with the delete tool
ClearDrawings(s) ==
  /\ ui[s] # NoUi
  /\ ui[s].map
  /\ all_drawings[s] # <<>>
  /\ RunScript(s, <<>>, typed[s], FALSE, 0, FALSE)

\* the user edits the name input
TypeName(s, text) ==
  /\ ui[s] # NoUi
  /\ ui[s].text_input # NoWidget
  /\ RunScript(s, all_drawings[s],
               [for |-> ui[s].text_input.default, text |-> text], FALSE, 0, FALSE)

\* the user clicks "Save AOI"
ClickSave(s, failAt, torn) ==
  /\ ui[s] # NoUi
  /\ ui[s].button
  /\ clock <= MaxSaves
  /\ failAt = 0 => ~torn
  /\ RunScript(s, all_drawings[s], typed[s], TRUE, failAt, torn)

\* the browser tab is closed: the session's state is dropped
CloseSession(s) ==
  /\ ui[s] # NoUi
  /\ session_state' = [session_state EXCEPT ![s] = NoGdf]
  /\ all_drawings' = [all_drawings EXCEPT ![s] = <<>>]
  /\ typed' = [typed EXCEPT ![s] = NoTyped]
  /\ ui' = [ui EXCEPT ![s] = NoUi]
  /\ loads' = [loads EXCEPT ![s] = <<>>]
  /\ UNCHANGED <<files, clock>>

(* --------------------------- initial state ---------------------------- *)
\* dataset files an earlier use of the app, or another tool, left behind
PreGpkg ==
  Serialize([columns |-> Columns, crs |-> EPSG4326,
             rows |-> <<Record(<<"Berlin Park", 0>>, 0, Geom("square"))>>], "GPKG")
PreGeoJson ==
  Serialize([columns |-> Columns, crs |-> EPSG4326,
             rows |-> <<Record(DefaultName(1), 0, Geom("square")),
                        Record(DefaultName(2), 0, Geom("square"))>>], "GeoJSON")
PreParquet == Serialize(EmptyGdf, "Parquet")
\* a GeoPackage of another tool: a self-intersecting polygon
ForeignGpkg ==
  Serialize([columns |-> Columns, crs |-> EPSG4326,
             rows |-> <<Record(<<"Berlin Park", 0>>, 0, Geom("bowtie"))>>], "GPKG")
\* a GeoPackage of another tool: projected coordinates
ProjectedGpkg ==
  Serialize([columns |-> Columns, crs |-> EPSG3857,
             rows |-> <<Record(<<"Berlin Park", 0>>, 0, Geom("square"))>>], "GPKG")

InitDirs ==
  { [p \in Paths |-> IF p \in present
                       THEN CASE p = GPKG_PATH -> PreGpkg
                              [] p = GEOJSON_PATH -> PreGeoJson
                              [] p = PARQUET_PATH -> PreParquet
                       ELSE Absent] : present \in SUBSET Paths }
  \cup { [p \in Paths |-> IF p = GPKG_PATH THEN g ELSE Absent]
           : g \in {ForeignGpkg, ProjectedGpkg} }

InitOver(S, dirs) ==
  /\ files \in dirs
  /\ session_state = [s \in S |-> NoGdf]
  /\ all_drawings = [s \in S |-> <<>>]
  /\ typed = [s \in S |-> NoTyped]
  /\ ui = [s \in S |-> NoUi]
  /\ clock = 1
  /\ loads = [s \in S |-> <<>>]

Init == InitOver(Sessions, InitDirs)

Next ==
  \E s \in Sessions :
    \/ Start(s)
    \/ Rerun(s)
    \/ \E d \in Drawings : Draw(s, d)
    \/ ClearDrawings(s)
    \/ \E text \in TypedNames : TypeName(s, text)
    \/ \E failAt \in 0..3, torn \in BOOLEAN : ClickSave(s, failAt, torn)
    \/ CloseSession(s)

\* one session and everything that can happen to it
Spec == Init /\ [][Next]_vars

\* dataset directories of the shared runs: empty, or left by an earlier use
SharedDirs ==
  { [p \in Paths |-> Absent],
    [p \in Paths |-> Serialize(Deserialize(PreGpkg), FormatOf(p))] }

InitShared == InitOver(SharedSessions, SharedDirs)

NextShared ==
  \E s \in SharedSessions :
    \/ Start(s)
    \/ Rerun(s)
    \/ Draw(s, Feature("square"))
    \/ \E failAt \in {0, 1}, torn \in BOOLEAN : ClickSave(s, failAt, torn)
    \/ CloseSession(s)

\* two sessions on the same dataset files; the first write of a save may raise
SpecShared == InitShared /\ [][NextShared]_vars

(* ============================ properties ============================== *)
\* the sessions of the specification
Open == DOMAIN ui

\* session s holds a collection
Held(s) == session_state[s] # NoGdf

Rows(s) == session_state[s].rows

\* the geometry of the last entry of the drawing buffer of s
LastGeom(s) == shape(all_drawings[s][Len(all_drawings[s])].geometry)

\* the step changes the collection session s holds into another collection
Changes(s) ==
  /\ session_state[s] # NoGdf
  /\ session_state'[s] # NoGdf
  /\ session_state'[s] # session_state[s]

\* the step leaves the old rows of s in place and adds one row at the end
AppendsOne(s) ==
  /\ Len(session_state'[s].rows) = Len(session_state[s].rows) + 1
  /\ SubSeq(session_state'[s].rows, 1, Len(session_state[s].rows)) = session_state[s].rows
  /\ session_state'[s].crs = session_state[s].crs
  /\ session_state'[s].columns = session_state[s].columns

(* ------------------------------- C1 ----------------------------------- *)
\* C1 as stated: the collection of a session is changed only by a
\* successful save (one that emits the success message), and such a change
\* appends exactly one record behind the unchanged old ones.
C1_ChangedOnlyBySuccessfulSave ==
  [][\A s \in Open : Changes(s) => ui'[s].message = "success" /\ AppendsOne(s)]_vars

\* C1 as amended: the collection of a session is changed only by a run in
\* which Save was clicked and the append was stored, whether or not the
\* writes that follow succeed; the change keeps the old records, unchanged
\* and in order, and adds exactly one record at the end.
C1_AppendOnly ==
  [][\A s \in Open :
       Changes(s) => /\ ui[s].button
                     /\ ui'[s].saved
                     /\ clock' = clock + 1
                     /\ AppendsOne(s)]_vars

\* a second save was stored behind the record of a first one
C1_Witness ==
  \E s \in Open :
    /\ ui[s] # NoUi /\ ui[s].saved
    /\ Held(s) /\ Len(Rows(s)) >= 2
    /\ loads[s] = <<"none">>
    /\ Rows(s)[1].timestamp < Rows(s)[2].timestamp

(* ------------------------------- C2 ----------------------------------- *)
\* C2: every record of a held collection has a non-empty, self-valid
\* geometry, the records the loader read from a file included.
C2_EveryGeometryValid ==
  \A s \in Open :
    Held(s) => \A i \in 1..Len(Rows(s)) :
                 ~is_empty(Rows(s)[i].geometry) /\ is_valid(Rows(s)[i].geometry)

C4_ThreeDownloadsOfTheCollection ==
  \A s \in Open :
    (/\ ui[s] # NoUi /\ Held(s) /\ Rows(s) # <<>>
     /\ ui[s].exception \notin {"load_gdf", "set_crs", "write"}) =>
      /\ ui[s].geojson = Serialize(session_state[s], "GeoJSON")
      /\ ui[s].gpkg = Serialize(session_state[s], "GPKG")
      /\ ui[s].parquet = Serialize(session_state[s], "Parquet")

(* ------------------------------- C5 ----------------------------------- *)
\* the run of this step rendered the page of s with a last drawn shape
RenderedDrawing(s) ==
  ui'[s] # NoUi /\ ui'[s].map /\ all_drawings'[s] # <<>>

LastGeomAfter(s) == shape(all_drawings'[s][Len(all_drawings'[s])].geometry)

\* C5: a run whose last drawn shape is empty or not self-valid shows an
\* error, offers neither the name input nor the save button, and leaves the
\* collection and the three files as they were; the collection and the
\* files change only in a run whose last drawn shape is non-empty and
\* self-valid and in which the offered save button was clicked.
C5_RejectionChangesNothing ==
  [][\A s \in Open :
       /\ (RenderedDrawing(s)
           /\ (is_empty(LastGeomAfter(s)) \/ ~is_valid(LastGeomAfter(s)))) =>
            /\ ui'[s].message \in {"error_empty", "error_invalid"}
            /\ ui'[s].text_input = NoWidget
            /\ ~ui'[s].button
            /\ session_state'[s] = session_state[s]
            /\ files' = files
       /\ (Changes(s) \/ (files' # files /\ ui'[s] # ui[s])) =>
            /\ RenderedDrawing(s)
            /\ ~is_empty(LastGeomAfter(s)) /\ is_valid(LastGeomAfter(s))
            /\ ui[s].button
            /\ clock' = clock + 1]_vars

\* a rejected shape on the page of a session that holds saved records and
\* whose buffer also has an earlier, valid shape
C5_Witness ==
  \E s \in Open :
    /\ ui[s] # NoUi /\ ui[s].message = "error_invalid"
    /\ Held(s) /\ Rows(s) # <<>>
    /\ Len(all_drawings[s]) = 2
    /\ is_valid(shape(all_drawings[s][1].geometry))

(* ------------------------------- C6 ----------------------------------- *)
\* the step is a run of s that called load_gdf
CallsLoad(s) == Len(loads'[s]) = Len(loads[s]) + 1

\* C6: every call of load_gdf reads aois.gpkg if it exists, otherwise
\* aois.geojson if it exists, otherwise aois.parquet if it exists, and no
\* other file; the collection the session then holds is the content of that
\* file, or, when none exists, an empty one with the columns name,
\* timestamp, geometry and CRS EPSG:4326.
C6_PreferenceOrder ==
  [][\A s \in Open :
       CallsLoad(s) =>
         LET src == loads'[s][Len(loads'[s])]
             has(p) == files[p] # Absent
         IN /\ has("aois.gpkg") => src = "aois.gpkg"
            /\ (~has("aois.gpkg") /\ has("aois.geojson")) => src = "aois.geojson"
            /\ (~has("aois.gpkg") /\ ~has("aois.geojson") /\ has("aois.parquet"))
                 => src = "aois.parquet"
            /\ (\A p \in Paths : ~has(p)) =>
                 /\ src = "none"
                 /\ session_state'[s] =
                      [columns |-> <<"name", "timestamp", "geometry">>,
                       crs |-> "EPSG:4326", rows |-> <<>>]
            /\ (src # "none" /\ session_state'[s] # NoGdf) =>
                 /\ session_state'[s].rows = files[src].features
                 /\ session_state'[s].crs = files[src].crs]_vars

\* aois.geojson was read although aois.parquet exists with other content
C6_Witness ==
  \E s \in Open :
    /\ loads[s] = <<"aois.geojson">>
    /\ files["aois.parquet"] # Absent
    /\ Held(s) /\ Len(Rows(s)) = 2

(* ------------------------------- C7 ----------------------------------- *)
\* C7: the page of a run with a drawn shape shows exactly one of three
\* outcomes: the emptiness error for every empty geometry, the validity
\* error for every non-empty geometry that is not self-valid, and the name
\* input with the save button (no error) for every non-empty, self-valid one.
C7_ThreeOutcomes ==
  \A s \in Open :
    (ui[s] # NoUi /\ ui[s].map /\ all_drawings[s] # <<>>) =>
      LET g == LastGeom(s)
          shownEmpty == ui[s].message = "error_empty"
          shownInvalid == ui[s].message = "error_invalid"
          shownValid == ui[s].button /\ ui[s].text_input # NoWidget
                        /\ ui[s].message \in {"none", "success"}
      IN /\ is_empty(g) => shownEmpty /\ ~shownInvalid /\ ~shownValid
         /\ (~is_empty(g) /\ ~is_valid(g)) => shownInvalid /\ ~shownEmpty /\ ~shownValid
         /\ (~is_empty(g) /\ is_valid(g)) => shownValid /\ ~shownEmpty /\ ~shownInvalid

\* an empty geometry on the page, rejected as empty
C7_Witness ==
  \E s \in Open :
    /\ ui[s] # NoUi /\ all_drawings[s] # <<>>
    /\ is_empty(LastGeom(s))
    /\ ui[s].message = "error_empty"

(* ------------------------------- C8 ----------------------------------- *)
\* C8: the name input is pre-filled with "AOI n", n = the size of the
\* collection before the append of this run, plus one; a record saved
\* without an edit of the name is named "AOI k", k its position in the
\* collection after the append.
C8_DefaultName ==
  \A s \in Open :
    (ui[s] # NoUi /\ ui[s].text_input # NoWidget) =>
      LET before == IF ui[s].saved THEN Len(Rows(s)) - 1 ELSE Len(Rows(s))
      IN /\ ui[s].text_input.default = <<"AOI", before + 1>>
         /\ (ui[s].saved /\ typed[s] = NoTyped) =>
              Rows(s)[Len(Rows(s))].name = <<"AOI", Len(Rows(s))>>

\* a record saved under its default name behind two records read from
\* aois.geojson
C8_Witness ==
  \E s \in Open :
    /\ ui[s] # NoUi /\ ui[s].saved /\ typed[s] = NoTyped
    /\ loads[s] = <<"aois.geojson">>
    /\ Len(Rows(s)) = 3
    /\ Rows(s)[3].name = <<"AOI", 3>>

(* ------------------------------- C9 ----------------------------------- *)
\* C9 as stated: load_gdf is called at most once in a session.
C9_LoadCalledOnce == \A s \in Open : Len(loads[s]) <= 1

\* C9 as amended: load_gdf is called only in a run that starts with no
\* collection held in session state (the first run, and the runs after a
\* load that raised); once a collection is held the files are never read
\* back into it: it changes only by the session's own save, and a step in
\* which another session changes a file or its collection leaves it alone.
C9_NoReload ==
  [][\A s \in Open :
       /\ CallsLoad(s) => session_state[s] = NoGdf
       /\ Changes(s) => ui'[s].saved /\ AppendsOne(s)
       /\ (Held(s) /\ \E t \in Open \ {s} : ui'[t] # ui[t]) =>
            session_state'[s] = session_state[s]]_vars

\* a session still holds what it loaded after another session's successful
\* save replaced the files, and has run again since
C9_Witness ==
  \E s \in Open : \E t \in Open \ {s} :
    /\ Held(s) /\ Held(t) /\ ui[t].message = "success"
    /\ loads[s] = <<"none">> /\ Rows(s) = <<>>
    /\ files["aois.gpkg"] = Serialize(session_state[t], "GPKG")
    /\ Len(all_drawings[s]) = 1

(* ------------------------------- C10 ---------------------------------- *)
\* the step is a run of s that stored an append
Saves(s) == ui'[s] # NoUi /\ ui'[s].saved /\ clock' = clock + 1 /\ Changes(s)

\* C10 as stated: a save updates the collection, then writes aois.gpkg,
\* aois.geojson, aois.parquet, then emits the success message; when the
\* k-th write fails the collection has the new record, the files written
\* before hold it, the failing and the later files hold what they held
\* before, and no success message is emitted.
C10_FailingFileKeepsContent ==
  [][\A s \in Open :
       Saves(s) =>
         LET k == ui'[s].failAt
             order == <<"aois.gpkg", "aois.geojson", "aois.parquet">>
         IN /\ AppendsOne(s)
            /\ \A i \in 1..3 :
                 IF k = 0 \/ i < k
                   THEN files'[order[i]].features = session_state'[s].rows
                   ELSE files'[order[i]] = files[order[i]]
            /\ (ui'[s].message = "success") <=> (k = 0)]_vars

\* C10 as amended: as stated, except that the file of the failing write
\* holds either what it held before or a partly written file.
C10_WriteOrderNoRollback ==
  [][\A s \in Open :
       Saves(s) =>
         LET k == ui'[s].failAt
             order == <<"aois.gpkg", "aois.geojson", "aois.parquet">>
         IN /\ AppendsOne(s)
            /\ \A i \in 1..3 :
                 IF k = 0 \/ i < k
                   THEN /\ files'[order[i]] # Absent /\ files'[order[i]] # Torn
                        /\ files'[order[i]].features = session_state'[s].rows
                   ELSE IF i = k
                     THEN files'[order[i]] \in {files[order[i]], Torn}
                     ELSE files'[order[i]] = files[order[i]]
            /\ (ui'[s].message = "success") <=> (k = 0)]_vars

\* the second write failed: aois.gpkg has the new record, aois.geojson and
\* aois.parquet do not, the collection has it, no success message
C10_Witness ==
  \E s \in Open :
    /\ ui[s] # NoUi /\ ui[s].saved /\ ui[s].failAt = 2
    /\ ui[s].message # "success"
    /\ files["aois.gpkg"] = Serialize(session_state[s], "GPKG")
    /\ files["aois.geojson"] # Serialize(session_state[s], "GeoJSON")
    /\ files["aois.parquet"] # Serialize(session_state[s], "Parquet")

====
